---- MODULE Spec2Model ----
(***************************************************************************)
(* Model of the hyperparameter sweep of src/optimize_hyperpara.py:         *)
(* frange, parse_profit_from_log and run_optimization.                     *)
(*                                                                         *)
(* Numbers.  Knob values and frange arguments are integers counting        *)
(* thousandths (3.0 is 3000); fitness values are integers counting         *)
(* hundredths (12.50 is 1250).  Text is a sequence of one-character        *)
(* strings.                                                                *)
(***************************************************************************)
EXTENDS Integers, Sequences, FiniteSets, TLC

\* ---------------------------------------------------------------- bounds
\* Largest number of combinations of a grid the model enumerates.
MaxCombos == 3
\* Largest number of pieces of text the simulator prints in one call.
MaxWrites == 2

\* ------------------------------------------------------------- constants
\* The value returned when no line matches: -99999.0, in hundredths.
Sentinel == -9999900
\* -float('inf'): below every value a bounded token can denote.
NegInf == -1000000000
SIMS_PER_RUN == 15
\* best_params = None
None == <<>>

\* ------------------------------------------------------------------ text
Digits == {"0", "1", "2", "3", "4", "5", "6", "7", "8", "9"}
DigitVal == [c \in Digits |->
               CASE c = "0" -> 0 [] c = "1" -> 1 [] c = "2" -> 2 [] c = "3" -> 3
                 [] c = "4" -> 4 [] c = "5" -> 5 [] c = "6" -> 6 [] c = "7" -> 7
                 [] c = "8" -> 8 [] c = "9" -> 9]
\* the characters \s matches that the model's texts use
Whitespace == {" ", "\n"}
\* the character class [0-9.-]
NumChars == Digits \cup {".", "-"}

\* TunableSigmoidAgent.name
AgentName == <<"S", "i", "g", "m", "o", "i", "d", "O", "p", "t", "B", "o", "t">>
\* the name of the first Tier1 opponent
OpponentName == <<"O", "p", "p", "o", "n", "e", "n", "t", " ", "1">>

\* the simulator's report line "### <agent> # <number>\n"
ReportLine(name, tok) ==
    <<"#", "#", "#", " ">> \o name \o <<" ", "#", " ">> \o tok \o <<"\n">>

\* mutant of LitAt: the name is put into the pattern without re.escape, so a
\* "." in it matches any character but a newline
LitAtUnescaped(text, p, lit) ==
    /\ p + Len(lit) - 1 <= Len(text)
    /\ \A k \in 1..Len(lit) :
         IF lit[k] = "." THEN text[p + k - 1] # "\n" ELSE text[p + k - 1] = lit[k]

\* Whether literal lit (re.escape'd, so every character stands for itself)
\* occurs in text at position p.
LitAt(text, p, lit) ==
    /\ p + Len(lit) - 1 <= Len(text)
    /\ \A k \in 1..Len(lit) : text[p + k - 1] = lit[k]

\* Length of the longest run of characters of class cls starting at p.
RECURSIVE RunLen(_, _, _)
RunLen(text, p, cls) ==
    IF p <= Len(text) /\ text[p] \in cls THEN 1 + RunLen(text, p + 1, cls) ELSE 0

\* The pattern  ###\s+NAME\s+#\s+([0-9.-]+)  tried at position p with the
\* first \s+ taking k1 characters: the captured group, or <<>> for no match.
\* The later \s+ and the group are followed by characters outside their
\* class, so their greedy length is the only one that can match.
MatchWith(text, p, name, k1) ==
    LET q1 == p + 3 + k1
        q2 == q1 + Len(name)
        w2 == RunLen(text, q2, Whitespace)
        q3 == q2 + w2
        w3 == RunLen(text, q3 + 1, Whitespace)
        q4 == q3 + 1 + w3
        g  == RunLen(text, q4, NumChars)
    IN  IF /\ LitAt(text, p, <<"#", "#", "#">>)
           /\ k1 >= 1
           /\ k1 <= RunLen(text, p + 3, Whitespace)
           /\ LitAt(text, q1, name)
           /\ w2 >= 1
           /\ LitAt(text, q3, <<"#">>)
           /\ w3 >= 1
           /\ g >= 1
        THEN SubSeq(text, q4, q4 + g - 1)
        ELSE <<>>

\* The match at position p: the greedy first \s+ backtracks from its longest
\* length down.
MatchAt(text, p, name) ==
    LET w1 == RunLen(text, p + 3, Whitespace)
        ks == {k \in 1..w1 : MatchWith(text, p, name, k) # <<>>}
    IN  IF ks = {} THEN <<>>
        ELSE MatchWith(text, p, name, CHOOSE k \in ks : \A j \in ks : j <= k)

\* pattern.search: the match at the leftmost position that has one.
Search(text, name) ==
    LET ps == {p \in 1..Len(text) : MatchAt(text, p, name) # <<>>}
    IN  IF ps = {} THEN <<>>
        ELSE MatchAt(text, CHOOSE p \in ps : \A j \in ps : p <= j, name)

\* The value of a sequence of digits.
RECURSIVE DigitsVal(_)
DigitsVal(ds) ==
    IF ds = <<>> THEN 0
    ELSE DigitsVal(SubSeq(ds, 1, Len(ds) - 1)) * 10 + DigitVal[ds[Len(ds)]]

\* Whether float() accepts a token of [0-9.-] characters: an optional
\* leading minus, digits with at most one point, at least one digit.
FloatAccepts(tok) ==
    LET body == IF tok # <<>> /\ tok[1] = "-" THEN Tail(tok) ELSE tok
        dots == {k \in 1..Len(body) : body[k] = "."}
    IN  /\ \A k \in 1..Len(body) : body[k] \in Digits \cup {"."}
        /\ Cardinality(dots) <= 1
        /\ \E k \in 1..Len(body) : body[k] \in Digits

\* float(tok) in hundredths (digits after the second decimal are dropped).
FloatOf(tok) ==
    LET neg  == tok[1] = "-"
        body == IF neg THEN Tail(tok) ELSE tok
        dots == {k \in 1..Len(body) : body[k] = "."}
        d    == IF dots = {} THEN Len(body) + 1 ELSE CHOOSE k \in dots : TRUE
        ip   == SubSeq(body, 1, d - 1)
        fr   == SubSeq(body, d + 1, Len(body))
        fr2  == SubSeq(fr \o <<"0", "0">>, 1, 2)
        mag  == DigitsVal(ip) * 100 + DigitsVal(fr2)
    IN  IF neg THEN 0 - mag ELSE mag

\* mutant of parse_profit_from_log: match.group(1) is read without the test
\* "if match", so a text without a match raises
parse_profit_unguarded(output_str, agent_name) ==
    LET tok == Search(output_str, agent_name)
    IN  IF tok # <<>> /\ FloatAccepts(tok) THEN [fault |-> FALSE, value |-> FloatOf(tok)]
        ELSE [fault |-> TRUE, value |-> 0]

\* parse_profit_from_log: [fault |-> FALSE, value |-> v] when it returns v,
\* [fault |-> TRUE, value |-> 0] when float() raises ValueError.
parse_profit_from_log(output_str, agent_name) ==
    LET tok == Search(output_str, agent_name)
    IN  IF tok = <<>> THEN [fault |-> FALSE, value |-> Sentinel]
        ELSE IF FloatAccepts(tok) THEN [fault |-> FALSE, value |-> FloatOf(tok)]
        ELSE [fault |-> TRUE, value |-> 0]

\* ------------------------------------------------------------------ grid
\* round(x, 2) on thousandths: to the nearest multiple of 10, ties to even.
Round2(x) ==
    LET q == x \div 10
        r == x % 10
    IN  IF r < 5 THEN 10 * q
        ELSE IF r > 5 THEN 10 * (q + 1)
        ELSE IF q % 2 = 0 THEN 10 * q ELSE 10 * (q + 1)

\* mutant of LoopContinues: the loop stops one value early
LoopContinuesStrict(current, stop) == current < stop

\* line 27: current <= stop + 1e-9; the tolerance is below one thousandth, so
\* on thousandths it is current <= stop.
LoopContinues(current, stop) == current <= stop

\* frange for step > 0: repeated addition of step while the loop continues.
RECURSIVE frange(_, _, _)
frange(start, stop, step) ==
    IF LoopContinues(start, stop)
    THEN <<Round2(start)>> \o frange(start + step, stop, step)
    ELSE <<>>

\* mutant of Product: the first sequence varies fastest
ProductFirstFastest(ps, ss, bs) ==
    LET np == Len(ps)
        ns == Len(ss)
    IN  [k \in 1..(np * ns * Len(bs)) |->
            <<ps[((k - 1) % np) + 1],
              ss[(((k - 1) \div np) % ns) + 1],
              bs[((k - 1) \div (np * ns)) + 1]>>]

\* itertools.product(ps, ss, bs) as a list: the last sequence varies fastest.
Product(ps, ss, bs) ==
    LET ns == Len(ss)
        nb == Len(bs)
    IN  [k \in 1..(Len(ps) * ns * nb) |->
            <<ps[((k - 1) \div (ns * nb)) + 1],
              ss[(((k - 1) \div nb) % ns) + 1],
              bs[((k - 1) % nb) + 1]>>]

\* The three knob ranges, each <<start, stop, step>>.  The source sweeps
\* 3.0..6.0 by 1.0, 8.0..12.0 by 2.0 and 0.1..0.3 by 0.1; the model keeps each
\* start and step and lets the stop be any grid point up to the source's, with
\* at most MaxCombos combinations in all.
PeakRanges == {<<3000, 3000 + 1000 * k, 1000>> : k \in 0..3}
SteepRanges == {<<8000, 8000 + 2000 * k, 2000>> : k \in 0..2}
BaseRanges == {<<100, 100 + 100 * k, 100>> : k \in 0..2}
RangeLen(r) == Len(frange(r[1], r[2], r[3]))
GridInputs ==
    {g \in [peak : PeakRanges, steep : SteepRanges, base : BaseRanges] :
        RangeLen(g.peak) * RangeLen(g.steep) * RangeLen(g.base) <= MaxCombos}

\* ----------------------------------------------------------------- state
VARIABLES
    pc,              \* the controller's position in run_optimization
    ranges,          \* the knob ranges of this sweep
    combinations,    \* list(itertools.product(...))
    store,           \* the lines of the result file, <<>> while it does not exist
    i,               \* the loop index (0-based)
    best_score,
    best_params,
    stdout,          \* what sys.stdout is: "console" or "capture"
    original_stdout, \* the stream saved at line 143
    capture_string,  \* the io.StringIO of the current combination: its chunks
    console,         \* the chunks that reached the shared output stream
    avg_profit,      \* the fitness parsed for the current combination
    writes,          \* pieces of text printed by the current simulator call
    calls,           \* the loop indices run_simulation was invoked for, in order
    fault,           \* the exception that left run_optimization, or "none"
    fr,              \* one call of frange, step by step
    pl,              \* one call of parse_profit_from_log
    ad,              \* one call of get_ad_bids
    tw               \* two invocations of run_optimization and their files

\* the variables of one sweep
sweepVars == <<pc, ranges, combinations, store, i, best_score, best_params, stdout,
               original_stdout, capture_string, console, avg_profit, writes, calls,
               fault>>
\* the variables of the calls modelled on their own
aux == <<fr, pl, ad, tw>>
vars == <<sweepVars, aux>>

\* the value of a variable no operation of the specification at hand touches
Idle == [pc |-> "idle"]

\* the header row of line 120
Header ==
    [names |-> <<"Run_ID", "Peak_Mult", "Steepness", "Base_Lift", "Avg_Profit", "Num_Sims">>]

\* the pieces of text a simulator call may print
Tokens == {<<"1", "0">>, <<"3", "0">>, <<"-">>}
SimLines == {ReportLine(AgentName, t) : t \in Tokens}
              \cup {ReportLine(OpponentName, <<"5", "0">>)}

\* io.StringIO.getvalue(): the chunks' text, concatenated.
RECURSIVE getvalue(_)
getvalue(chunks) ==
    IF chunks = <<>> THEN <<>> ELSE Head(chunks).text \o getvalue(Tail(chunks))

\* print(...): the chunk goes to the stream sys.stdout is at that moment.
ConsoleAfter(out, con, chunk) == IF out = "console" THEN Append(con, chunk) ELSE con
CaptureAfter(out, cap, chunk) == IF out = "capture" THEN Append(cap, chunk) ELSE cap
Ctl(run, word) == [src |-> "ctl", run |-> run, text |-> <<word>>]
Sim(run, text) == [src |-> "sim", run |-> run, text |-> text]

N == Len(combinations)

Init ==
    /\ pc = "start"
    /\ ranges \in GridInputs
    /\ combinations = <<>>
    /\ store = <<>>
    /\ i = 0
    /\ best_score = NegInf
    /\ best_params = None
    /\ stdout = "console"
    /\ original_stdout = "console"
    /\ capture_string = <<>>
    /\ console = <<>>
    /\ avg_profit = 0
    /\ writes = 0
    /\ calls = <<>>
    /\ fault = "none"
    /\ fr = Idle
    /\ pl = Idle
    /\ ad = Idle
    /\ tw = Idle

\* ------------------------------------------------------------ operations
\* mutant of NewCapture: the buffer of the previous combination is kept
StaleCapture == capture_string

\* line 142: capture_string = io.StringIO(), a new empty buffer
NewCapture == <<>>

\* mutant of CrashNext: the handler re-raises
CrashNextPropagates == "fault"

\* lines 148-151: the handler of "except Exception" ends in continue
CrashNext == "loop"

\* mutant of AppendFaultNext: the append stands inside the try block and its
\* fault is swallowed
AppendFaultSwallowed == "track"

\* lines 159-161 do not stand in the try block: an OSError leaves the function
AppendFaultNext == "fault"

\* line 161: the row of loop index idx
RowOf(idx, combo, profit) ==
    [Run_ID |-> idx + 1, Peak_Mult |-> combo[1], Steepness |-> combo[2],
     Base_Lift |-> combo[3], Avg_Profit |-> profit, Num_Sims |-> SIMS_PER_RUN]

\* mutant of OpenAppend: the file is reopened with mode 'w'
OpenTruncate(st, row) == <<row>>

\* lines 159-161: open(csv_filename, mode='a') and writerow
OpenAppend(st, row) == Append(st, row)

\* mutant of CrashRestore: the handler leaves sys.stdout at the buffer
CrashKeepsCapture == stdout

\* line 149: sys.stdout = original_stdout in the handler
CrashRestore == original_stdout

\* mutant of TrackedParams: the score is replaced and the vector is kept
TrackedParamsStale(combo) == best_params

\* line 165: best_params = (p, s, b)
TrackedParams(combo) == combo

\* mutant of Improves: a tie replaces the tracker too
ImprovesOrTies(profit, best) == profit >= best

\* line 163: avg_profit > best_score
Improves(profit, best) == profit > best

\* lines 96-116: the knob sequences are generated, the folder is made and the
\* file name announced.
Setup ==
    /\ UNCHANGED aux
    /\ pc = "start"
    /\ console' = ConsoleAfter(stdout, console, Ctl(0, "Logging"))
    /\ pc' = "create"
    /\ UNCHANGED <<ranges, combinations, store, i, best_score, best_params,
                   stdout, original_stdout, capture_string, avg_profit, writes,
                   calls, fault>>

\* lines 118-127: the file is opened with mode 'w', the header written, the
\* combinations listed and the tracker initialised.
CreateStore ==
    /\ UNCHANGED aux
    /\ pc = "create"
    /\ store' = <<Header>>
    /\ combinations' = Product(frange(ranges.peak[1], ranges.peak[2], ranges.peak[3]),
                               frange(ranges.steep[1], ranges.steep[2], ranges.steep[3]),
                               frange(ranges.base[1], ranges.base[2], ranges.base[3]))
    /\ best_score' = NegInf
    /\ best_params' = None
    /\ i' = 0
    /\ pc' = "loop"
    /\ UNCHANGED <<ranges, stdout, original_stdout, capture_string, console,
                   avg_profit, writes, calls, fault>>

\* lines 109-118: os.makedirs or open raises OSError; nothing catches it.
CreateStoreFault ==
    /\ UNCHANGED aux
    /\ pc = "create"
    /\ fault' = "OSError at create"
    /\ pc' = "fault"
    /\ UNCHANGED <<ranges, combinations, store, i, best_score, best_params,
                   stdout, original_stdout, capture_string, console, avg_profit,
                   writes, calls>>

\* lines 129-147: the progress line, the agents and the simulator are built,
\* sys.stdout is pointed at a new buffer and run_simulation is called.
StartCombination ==
    /\ UNCHANGED aux
    /\ pc = "loop"
    /\ i < N
    /\ console' = ConsoleAfter(stdout, console, Ctl(i, "progress"))
    /\ capture_string' = NewCapture
    /\ original_stdout' = stdout
    /\ stdout' = "capture"
    /\ writes' = 0
    /\ calls' = Append(calls, i)
    /\ pc' = "running"
    /\ UNCHANGED <<ranges, combinations, store, i, best_score, best_params,
                   avg_profit, fault>>

\* lines 136-140: a constructor raises; these lines stand before the try block.
ConstructFault ==
    /\ UNCHANGED aux
    /\ pc = "loop"
    /\ i < N
    /\ console' = ConsoleAfter(stdout, console, Ctl(i, "progress"))
    /\ fault' = "Exception at construction"
    /\ pc' = "fault"
    /\ UNCHANGED <<ranges, combinations, store, i, best_score, best_params,
                   stdout, original_stdout, capture_string, avg_profit, writes,
                   calls>>

\* line 147, inside run_simulation: the simulator prints a piece of text.
SimWrite ==
    /\ UNCHANGED aux
    /\ pc = "running"
    /\ writes < MaxWrites
    /\ \E line \in SimLines :
        /\ capture_string' = CaptureAfter(stdout, capture_string, Sim(i, line))
        /\ console' = ConsoleAfter(stdout, console, Sim(i, line))
    /\ writes' = writes + 1
    /\ UNCHANGED <<pc, ranges, combinations, store, i, best_score, best_params,
                   stdout, original_stdout, avg_profit, calls, fault>>

\* line 147: run_simulation returns.
SimReturn ==
    /\ UNCHANGED aux
    /\ pc = "running"
    /\ pc' = "returned"
    /\ UNCHANGED <<ranges, combinations, store, i, best_score, best_params,
                   stdout, original_stdout, capture_string, console, avg_profit,
                   writes, calls, fault>>

\* lines 148-151: run_simulation raises an Exception: sys.stdout is restored,
\* CRASH is printed and the loop continues with the next combination.
SimRaise ==
    /\ UNCHANGED aux
    /\ pc = "running"
    /\ stdout' = CrashRestore
    /\ console' = ConsoleAfter(CrashRestore, console, Ctl(i, "CRASH"))
    /\ capture_string' = CaptureAfter(CrashRestore, capture_string, Ctl(i, "CRASH"))
    /\ pc' = CrashNext
    /\ i' = IF CrashNext = "loop" THEN i + 1 ELSE i
    /\ fault' = IF CrashNext = "loop" THEN fault ELSE "Exception in run_simulation"
    /\ UNCHANGED <<ranges, combinations, store, best_score, best_params,
                   original_stdout, avg_profit, writes, calls>>

\* lines 153-157: sys.stdout is restored, the captured text is parsed and the
\* fitness printed; a ValueError of float() leaves the function.
ParseLog ==
    /\ UNCHANGED aux
    /\ pc = "returned"
    /\ stdout' = original_stdout
    /\ LET r == parse_profit_from_log(getvalue(capture_string), AgentName)
       IN  IF r.fault
           THEN /\ fault' = "ValueError in parse_profit_from_log"
                /\ pc' = "fault"
                /\ UNCHANGED <<avg_profit, console, capture_string>>
           ELSE /\ avg_profit' = r.value
                /\ console' = ConsoleAfter(original_stdout, console, Ctl(i, "profit"))
                /\ capture_string' =
                       CaptureAfter(original_stdout, capture_string, Ctl(i, "profit"))
                /\ pc' = "append"
                /\ UNCHANGED fault
    /\ UNCHANGED <<ranges, combinations, store, i, best_score, best_params,
                   original_stdout, writes, calls>>

\* lines 159-161: the row is appended and the file closed.
AppendRow ==
    /\ UNCHANGED aux
    /\ pc = "append"
    /\ store' = OpenAppend(store, RowOf(i, combinations[i + 1], avg_profit))
    /\ pc' = "track"
    /\ UNCHANGED <<ranges, combinations, i, best_score, best_params, stdout,
                   original_stdout, capture_string, console, avg_profit, writes,
                   calls, fault>>

\* lines 159-161: open or writerow raises OSError.
AppendFault ==
    /\ UNCHANGED aux
    /\ pc = "append"
    /\ pc' = AppendFaultNext
    /\ fault' = IF AppendFaultNext = "fault" THEN "OSError at append" ELSE fault
    /\ UNCHANGED <<ranges, combinations, store, i, best_score, best_params,
                   stdout, original_stdout, capture_string, console, avg_profit,
                   writes, calls>>

\* lines 163-165 and the loop's step to the next combination.
UpdateBest ==
    /\ UNCHANGED aux
    /\ pc = "track"
    /\ IF Improves(avg_profit, best_score)
       THEN /\ best_score' = avg_profit
            /\ best_params' = TrackedParams(combinations[i + 1])
       ELSE UNCHANGED <<best_score, best_params>>
    /\ i' = i + 1
    /\ pc' = "loop"
    /\ UNCHANGED <<ranges, combinations, store, stdout, original_stdout,
                   capture_string, console, avg_profit, writes, calls, fault>>

\* lines 167-171: the summary; best_params[0] raises TypeError when
\* best_params is None.
Summary ==
    /\ UNCHANGED aux
    /\ pc = "loop"
    /\ i = N
    /\ IF best_params = None
       THEN /\ console' = console \o <<Ctl(i, "DONE"), Ctl(i, "Best Profit")>>
            /\ fault' = "TypeError in summary"
            /\ pc' = "fault"
       ELSE /\ console' = console \o <<Ctl(i, "DONE"), Ctl(i, "Best Profit"),
                                       Ctl(i, "Best Params")>>
            /\ pc' = "done"
            /\ UNCHANGED fault
    /\ UNCHANGED <<ranges, combinations, store, i, best_score, best_params,
                   stdout, original_stdout, capture_string, avg_profit, writes,
                   calls>>

Next ==
    \/ Setup
    \/ CreateStore
    \/ CreateStoreFault
    \/ StartCombination
    \/ ConstructFault
    \/ SimWrite
    \/ SimReturn
    \/ SimRaise
    \/ ParseLog
    \/ AppendRow
    \/ AppendFault
    \/ UpdateBest
    \/ Summary

Spec == Init /\ [][Next]_vars

\* ---------------------------------------------------------- observations
\* The data rows of the store (everything after the header line).
DataRows == IF store = <<>> THEN <<>> ELSE Tail(store)

\* The loop indices whose run_simulation call raised: each printed CRASH.
Raised == {console[k].run : k \in {j \in 1..Len(console) : console[j].text = <<"CRASH">>}}

\* The sweep has processed the whole grid.
SweepOver ==
    \/ pc = "loop" /\ i = N
    \/ pc = "done"
    \/ fault = "TypeError in summary"

\* The parameter vector a data row carries.
VectorOf(row) == <<row.Peak_Mult, row.Steepness, row.Base_Lift>>

\* The text the simulator printed during the call of loop index idx, as far as
\* the current buffer holds it.
OwnText(idx) ==
    getvalue(SelectSeq(capture_string, LAMBDA c : c.src = "sim" /\ c.run = idx))

\* ---------------------------------------------------------------- claims
\* C1: after the whole grid was processed the store holds exactly N data rows,
\* one per combination in enumeration order, and the row of a combination
\* whose call raised is present with the sentinel fitness.
C1_OneRowPerCombination ==
    SweepOver =>
        /\ Len(DataRows) = N
        /\ \A k \in 1..N :
            /\ DataRows[k].Run_ID = k
            /\ VectorOf(DataRows[k]) = combinations[k]
            /\ (k - 1) \in Raised => DataRows[k].Avg_Profit = Sentinel

\* C2: whichever calls of run_simulation raise, run_simulation is invoked
\* exactly once per combination in enumeration order: a raising call k is
\* followed by the combinations after k, and a row that is written carries
\* its own loop index, its own parameter vector and the fitness parsed from
\* the text of its own call.
C2_FaultNeverStopsTheSweep ==
    /\ \A k \in 1..Len(calls) : calls[k] = k - 1
    /\ \A k \in Raised : k < i
    /\ pc = "loop" => Len(calls) = i
    /\ SweepOver => Len(calls) = N
    /\ \A k \in 1..Len(DataRows) :
        /\ VectorOf(DataRows[k]) = combinations[DataRows[k].Run_ID]
        /\ (DataRows[k].Run_ID - 1) \notin Raised
        /\ k > 1 => DataRows[k - 1].Run_ID < DataRows[k].Run_ID
    /\ pc = "track" =>
        DataRows[Len(DataRows)] =
            RowOf(i, combinations[i + 1],
                  parse_profit_from_log(OwnText(i), AgentName).value)

\* C2 witness: the grid was processed to its end, a call raised, and a later
\* combination was still run and has its row.
C2_Witness ==
    /\ pc = "done"
    /\ \E k \in Raised : \E r \in 1..Len(DataRows) : DataRows[r].Run_ID > k + 1

\* C3: a fault raised at any step of one combination's evaluation (the
\* constructors, the simulation, the conversion of the matched token) never
\* leaves run_optimization.
C3_CombinationFaultsRecovered ==
    fault \notin {"Exception at construction", "ValueError in parse_profit_from_log",
                  "Exception in run_simulation"}

\* C4: after any prefix of the sweep best_score is the greatest fitness among
\* the combinations whose simulation returned so far (those with a row) and
\* best_params is the vector of the earliest of them with that fitness; with
\* none, the tracker is still (-inf, None).
C4_TrackerIsEarliestMaximum ==
    (store # <<>> /\ pc # "track") =>
        IF DataRows = <<>>
        THEN best_score = NegInf /\ best_params = None
        ELSE LET ks    == 1..Len(DataRows)
                 top   == CHOOSE k \in ks :
                             \A j \in ks : DataRows[j].Avg_Profit <= DataRows[k].Avg_Profit
                 first == CHOOSE k \in ks :
                             /\ DataRows[k].Avg_Profit = DataRows[top].Avg_Profit
                             /\ \A j \in ks :
                                  DataRows[j].Avg_Profit = DataRows[top].Avg_Profit => k <= j
             IN  /\ best_score = DataRows[top].Avg_Profit
                 /\ best_params = VectorOf(DataRows[first])

\* C4 witness: two combinations tie at the greatest fitness, a call raised in
\* the same sweep, and the tracker holds the earlier vector.
C4_Witness ==
    /\ pc = "done"
    /\ Raised # {}
    /\ \E a, b \in 1..Len(DataRows) :
        /\ a < b
        /\ DataRows[a].Avg_Profit = best_score
        /\ DataRows[b].Avg_Profit = best_score
        /\ best_score > Sentinel
        /\ best_params = VectorOf(DataRows[a])
        /\ best_params # VectorOf(DataRows[b])

\* Every combination of the grid failed: its call raised or its row carries
\* the sentinel.
AllFailed ==
    \A k \in 1..N :
        \/ (k - 1) \in Raised
        \/ \E r \in 1..Len(DataRows) :
              DataRows[r].Run_ID = k /\ DataRows[r].Avg_Profit = Sentinel

\* C5: when every combination failed, the summary completes without a fault,
\* the best fitness held is the sentinel, and no parameter vector is printed
\* as the best result.
C5_AllFailedSummary ==
    ((pc = "done" \/ fault = "TypeError in summary") /\ AllFailed) =>
        /\ pc = "done"
        /\ best_score = Sentinel
        /\ \A k \in 1..Len(console) : console[k].text # <<"Best Params">>

\* C6: the store gets its header before the first combination is evaluated
\* and is append-only from then on: its content is the header followed by data
\* rows, and every later content has every earlier content as a prefix.
C6_StoreAppendOnly ==
    /\ [](store = <<>> => calls = <<>>)
    /\ [](store # <<>> =>
            /\ store[1] = Header
            /\ \A k \in 2..Len(store) :
                  DOMAIN store[k] = {"Run_ID", "Peak_Mult", "Steepness", "Base_Lift",
                                     "Avg_Profit", "Num_Sims"})
    /\ [][store # <<>> =>
            /\ Len(store') >= Len(store)
            /\ SubSeq(store', 1, Len(store)) = store]_vars

\* C6 witness: a third combination is running and the rows of the first two
\* stand behind the header.
C6_Witness ==
    /\ pc = "running"
    /\ Len(store) = 3
    /\ store[1] = Header
    /\ store[2].Run_ID = 1
    /\ store[3].Run_ID = 2

\* C7: at whatever point the process is killed, the store holds a row for
\* every combination that finished before that point.
C7_FinishedCombinationsHaveRows ==
    \A k \in 1..i : \E r \in 1..Len(DataRows) : DataRows[r].Run_ID = k

\* C8: all text the simulator prints during a call is in the buffer created
\* for that call and none of it is on the shared stream, whether the call
\* returned or raised; the buffer holds no text of an earlier combination.
C8_CapturePerCombination ==
    /\ \A k \in 1..Len(console) : console[k].src # "sim"
    /\ Len(capture_string) = writes
    /\ \A k \in 1..Len(capture_string) :
        /\ capture_string[k].src = "sim"
        /\ capture_string[k].run = calls[Len(calls)]
    /\ pc \in {"running", "returned", "append", "track"} =>
        /\ calls # <<>>
        /\ calls[Len(calls)] = i

\* C8 witness: the call before raised, and the text of the current call is
\* about to be parsed.
C8_Witness ==
    /\ pc = "returned"
    /\ (i - 1) \in Raised
    /\ Len(capture_string) >= 2

\* The captured text has no line the pattern matches for the agent.
Miss == Search(getvalue(capture_string), AgentName) = <<>>

\* C9: when the simulation returned and the captured text has no line for the
\* agent, parsing yields the sentinel and no fault, the row appended (unless
\* the append itself fails) carries the sentinel, and the sweep goes on to the
\* next combination.
C9_MissIsRecorded ==
    /\ [][(pc = "returned" /\ Miss) => (pc' = "append" /\ avg_profit' = Sentinel)]_vars
    /\ [][(pc = "append" /\ Miss /\ pc' # "fault") =>
            /\ pc' = "track"
            /\ store' = Append(store, RowOf(i, combinations[i + 1], Sentinel))]_vars
    /\ [][(pc = "track" /\ Miss) => (pc' = "loop" /\ i' = i + 1)]_vars

\* C9 witness: the simulator printed only another agent's line and the row
\* with the sentinel is in the store.
C9_Witness ==
    /\ pc = "track"
    /\ writes > 0
    /\ Miss
    /\ DataRows[Len(DataRows)].Run_ID = i + 1
    /\ DataRows[Len(DataRows)].Avg_Profit = Sentinel

\* C10: a fault of creating the store leaves run_optimization before any
\* combination is evaluated; a fault of appending a row leaves it too, no later
\* combination is evaluated, and the controller never gets past the append
\* without the row being in the store.
C10_StorageFaultsAbort ==
    /\ calls # <<>> => store # <<>>
    /\ fault = "OSError at create" => (pc = "fault" /\ calls = <<>> /\ store = <<>>)
    /\ fault = "OSError at append" =>
        /\ pc = "fault"
        /\ Len(calls) = i + 1
        /\ \A r \in 1..Len(DataRows) : DataRows[r].Run_ID # i + 1
    /\ pc = "track" =>
        /\ DataRows # <<>>
        /\ DataRows[Len(DataRows)].Run_ID = i + 1

\* C10 witness: an append failed while combinations were still to come.
C10_Witness ==
    /\ fault = "OSError at append"
    /\ pc = "fault"
    /\ i + 1 < N

\* =================================================== frange, step by step
\* Most iterations of the loop of frange the model follows.
MaxIter == 6

\* The arguments of the call, in thousandths: steps of either sign and zero,
\* values with three decimals, ranges that are empty.  A call with step > 0
\* is taken only if it ends within MaxIter iterations.
FrStarts == {0, 4, 100, 125, 800, 996, 3000}
FrStops == {0, 4, 300, 999, 1000, 3000}
FrSteps == {-1000, 0, 1, 5, 50, 100, 1000}
FrInputs ==
    {a \in [start : FrStarts, stop : FrStops, step : FrSteps] :
        (a.step > 0 /\ a.start <= a.stop) => (a.stop - a.start) \div a.step < MaxIter}

\* The sweep's own variables while another call is looked at.
SweepAtRest ==
    /\ pc = "idle"
    /\ ranges = <<>>
    /\ combinations = <<>>
    /\ store = <<>>
    /\ i = 0
    /\ best_score = NegInf
    /\ best_params = None
    /\ stdout = "console"
    /\ original_stdout = "console"
    /\ capture_string = <<>>
    /\ console = <<>>
    /\ avg_profit = 0
    /\ writes = 0
    /\ calls = <<>>
    /\ fault = "none"

\* lines 25-26: result = [], current = start
InitFrange ==
    /\ SweepAtRest
    /\ \E a \in FrInputs :
        fr = [pc |-> "loop", start |-> a.start, stop |-> a.stop, step |-> a.step,
              current |-> a.start, result |-> <<>>]
    /\ pl = Idle
    /\ ad = Idle
    /\ tw = Idle

\* lines 27-29: one iteration of the while loop
FrangeIterate ==
    /\ fr.pc = "loop"
    /\ LoopContinues(fr.current, fr.stop)
    /\ Len(fr.result) < MaxIter
    /\ fr' = [fr EXCEPT !.result = Append(@, Round2(fr.current)),
                        !.current = @ + fr.step]
    /\ UNCHANGED <<sweepVars, pl, ad, tw>>

\* lines 27 and 30: the loop condition is false and result is returned
FrangeReturn ==
    /\ fr.pc = "loop"
    /\ ~LoopContinues(fr.current, fr.stop)
    /\ fr' = [fr EXCEPT !.pc = "returned"]
    /\ UNCHANGED <<sweepVars, pl, ad, tw>>

NextFrange ==
    \/ FrangeIterate
    \/ FrangeReturn

SpecFrange == InitFrange /\ [][NextFrange]_vars

\* The call returned for arguments with step > 0 and start <= stop.
FrValidReturned == fr.pc = "returned" /\ fr.step > 0 /\ fr.start <= fr.stop

FrLast == fr.result[Len(fr.result)]

\* The loop of frange and the operator frange give the same sequence.
FrangeAgrees ==
    (fr.pc = "returned" /\ fr.step > 0) => fr.result = frange(fr.start, fr.stop, fr.step)

\* C11 as claimed: for step > 0 and start <= stop the result is non-empty and
\* non-decreasing, its first element is start, and its last element satisfies
\* last <= stop and last + step > stop, also for arguments with more than two
\* decimals.
C11_RangeEndpoints ==
    FrValidReturned =>
        /\ fr.result # <<>>
        /\ \A k \in 2..Len(fr.result) : fr.result[k - 1] <= fr.result[k]
        /\ fr.result[1] = fr.start
        /\ FrLast <= fr.stop
        /\ FrLast + fr.step > fr.stop

\* C11 amended: for step > 0 and start <= stop the result is non-empty and
\* non-decreasing, its k-th element is a multiple of 0.01 nearest to
\* start + (k-1)*step, and the last of these sums is <= stop while the next
\* one is > stop; when start and step have at most two decimals the first
\* element is start and the last element itself satisfies last <= stop and
\* last + step > stop.
C11_RangeEndpointsRounded ==
    FrValidReturned =>
        LET n == Len(fr.result)
            sum(k) == fr.start + (k - 1) * fr.step
        IN  /\ n >= 1
            /\ \A k \in 2..n : fr.result[k - 1] <= fr.result[k]
            /\ \A k \in 1..n :
                /\ fr.result[k] % 10 = 0
                /\ fr.result[k] - sum(k) <= 5
                /\ sum(k) - fr.result[k] <= 5
            /\ sum(n) <= fr.stop
            /\ sum(n + 1) > fr.stop
            /\ (fr.start % 10 = 0 /\ fr.step % 10 = 0) =>
                /\ fr.result[1] = fr.start
                /\ FrLast <= fr.stop
                /\ FrLast + fr.step > fr.stop

\* C11 witness: a call with two-decimal arguments returned several values
\* ending exactly at stop.
C11_Witness ==
    /\ FrValidReturned
    /\ fr.start % 10 = 0
    /\ fr.step % 10 = 0
    /\ Len(fr.result) >= 3
    /\ FrLast = fr.stop

\* C12: a call with step <= 0 ends in a fault: it never returns a sequence and
\* it does not go on iterating.
C12_NonPositiveStepFaults ==
    fr.step <= 0 =>
        /\ fr.pc # "returned"
        /\ Len(fr.result) < MaxIter

\* ======================================== the sweep over grids of 2 x 2 x 2
\* Largest number of combinations of a grid in the sweeps that look at the
\* order of enumeration.
MaxGridCombos == 8

GridInputsWide ==
    {g \in [peak : PeakRanges, steep : SteepRanges, base : BaseRanges] :
        RangeLen(g.peak) * RangeLen(g.steep) * RangeLen(g.base) <= MaxGridCombos}

\* The state before run_optimization starts, for the larger grids.
InitGrid ==
    /\ pc = "start"
    /\ ranges \in GridInputsWide
    /\ combinations = <<>>
    /\ store = <<>>
    /\ i = 0
    /\ best_score = NegInf
    /\ best_params = None
    /\ stdout = "console"
    /\ original_stdout = "console"
    /\ capture_string = <<>>
    /\ console = <<>>
    /\ avg_profit = 0
    /\ writes = 0
    /\ calls = <<>>
    /\ fault = "none"
    /\ fr = Idle
    /\ pl = Idle
    /\ ad = Idle
    /\ tw = Idle

\* The sweep with a simulator that prints nothing (every returned call is an
\* extraction miss) and either returns or raises, and without storage faults.
NextGrid ==
    \/ Setup
    \/ CreateStore
    \/ StartCombination
    \/ SimReturn
    \/ SimRaise
    \/ ParseLog
    \/ AppendRow
    \/ UpdateBest
    \/ Summary

SpecGrid == InitGrid /\ [][NextGrid]_vars

\* The three knob sequences of the sweep.
PeakMults == frange(ranges.peak[1], ranges.peak[2], ranges.peak[3])
Steepnesses == frange(ranges.steep[1], ranges.steep[2], ranges.steep[3])
BaseLifts == frange(ranges.base[1], ranges.base[2], ranges.base[3])

\* Lexicographic order of parameter vectors.
LexLess(c, d) ==
    \/ c[1] < d[1]
    \/ c[1] = d[1] /\ c[2] < d[2]
    \/ c[1] = d[1] /\ c[2] = d[2] /\ c[3] < d[3]

\* C13: the list of combinations is the whole Cartesian product of the three
\* knob sequences in lexicographic order (peak multiplier slowest, base lift
\* fastest), its length is the product of their lengths, every row carries as
\* Run_ID the 1-based position of its vector, and Run_IDs increase strictly.
C13_GridOrder ==
    pc \notin {"start", "create"} =>
        /\ N = Len(PeakMults) * Len(Steepnesses) * Len(BaseLifts)
        /\ {combinations[k] : k \in 1..N} =
              {<<PeakMults[a], Steepnesses[b], BaseLifts[c]>> :
                  a \in 1..Len(PeakMults), b \in 1..Len(Steepnesses),
                  c \in 1..Len(BaseLifts)}
        /\ \A k \in 1..N : \A l \in 1..N :
              k < l => LexLess(combinations[k], combinations[l])
        /\ \A r \in 1..Len(DataRows) :
            /\ DataRows[r].Run_ID \in 1..N
            /\ combinations[DataRows[r].Run_ID] = VectorOf(DataRows[r])
            /\ r > 1 => DataRows[r - 1].Run_ID < DataRows[r].Run_ID

\* C13 witness: a 2 x 2 x 2 grid was swept, a call raised, and the last
\* combination has its row with Run_ID 8.
C13_Witness ==
    /\ pc = "done"
    /\ Len(PeakMults) = 2
    /\ Len(Steepnesses) = 2
    /\ Len(BaseLifts) = 2
    /\ Raised # {}
    /\ Len(DataRows) >= 3
    /\ DataRows[Len(DataRows)].Run_ID = 8
    /\ VectorOf(DataRows[Len(DataRows)]) = <<4000, 10000, 200>>

\* =========================================== two invocations of the sweep
\* The clock advances in ticks; this many ticks make one second.
TicksPerSecond == 2
\* The last tick of the clock the model reaches.
MaxClock == 3
\* Rows each of the two invocations appends.
MaxTwRows == 2

Invocations == {1, 2}

\* line 112: datetime.now().strftime("%Y-%m-%d_%H-%M-%S"), the time cut to
\* whole seconds; it is the only varying part of csv_filename (line 113).
Timestamp(clock) == clock \div TicksPerSecond

FileNames == {Timestamp(c) : c \in 0..MaxClock}

\* No invocation has started, no file exists.
InitTwo ==
    /\ SweepAtRest
    /\ fr = Idle
    /\ pl = Idle
    /\ ad = Idle
    /\ tw = [clock |-> 0,
             files |-> [f \in FileNames |-> <<>>],
             inv   |-> [a \in Invocations |-> [pc |-> "new", name |-> 0, i |-> 0]]]

\* Time passes.
Tick ==
    /\ tw.clock < MaxClock
    /\ tw' = [tw EXCEPT !.clock = @ + 1]
    /\ UNCHANGED <<sweepVars, fr, pl, ad>>

\* lines 112-127 of invocation a: the file name is made from the current
\* second, the file is opened with mode 'w' and the header written.
TwCreateStore(a) ==
    /\ tw.inv[a].pc = "new"
    /\ LET name == Timestamp(tw.clock)
       IN  tw' = [tw EXCEPT !.files[name] = <<Header>>,
                            !.inv[a] = [pc |-> "loop", name |-> name, i |-> 0]]
    /\ UNCHANGED <<sweepVars, fr, pl, ad>>

\* lines 129-165 of invocation a for a combination whose call returns: the
\* row is appended to the file of that name.
TwAppendRow(a) ==
    /\ tw.inv[a].pc = "loop"
    /\ tw.inv[a].i < MaxTwRows
    /\ LET name == tw.inv[a].name
       IN  tw' = [tw EXCEPT
                    !.files[name] =
                        OpenAppend(@, [by |-> a, Run_ID |-> tw.inv[a].i + 1]),
                    !.inv[a].i = @ + 1]
    /\ UNCHANGED <<sweepVars, fr, pl, ad>>

\* lines 167-171 of invocation a.
TwSummary(a) ==
    /\ tw.inv[a].pc = "loop"
    /\ tw.inv[a].i = MaxTwRows
    /\ tw' = [tw EXCEPT !.inv[a].pc = "done"]
    /\ UNCHANGED <<sweepVars, fr, pl, ad>>

NextTwo ==
    \/ Tick
    \/ \E a \in Invocations : TwCreateStore(a)
    \/ \E a \in Invocations : TwAppendRow(a)
    \/ \E a \in Invocations : TwSummary(a)

SpecTwo == InitTwo /\ [][NextTwo]_vars

\* C14: two invocations never use the same store: their file names differ,
\* and the file of an invocation holds the header and exactly the rows that
\* invocation appended, in order.
C14_StoresDisjoint ==
    \A a \in Invocations :
        tw.inv[a].pc # "new" =>
            LET f == tw.files[tw.inv[a].name]
            IN  /\ \A b \in Invocations \ {a} :
                      tw.inv[b].pc # "new" => tw.inv[b].name # tw.inv[a].name
                /\ Len(f) = tw.inv[a].i + 1
                /\ f[1] = Header
                /\ \A k \in 2..Len(f) : f[k] = [by |-> a, Run_ID |-> k - 1]

\* ---------------------------------------------------------------------------
\* get_ad_bids, one campaign per step.  Money and urgency are in
\* ten-thousandths (0.01 = 100), knobs and x in thousandths, deriv in millionths.
\* ---------------------------------------------------------------------------

MaxReach == 2
MaxCamps == 2
Floor == 100
DailyMin == 10000
OverflowAt == 354891

Max(a, b) == IF a >= b THEN a ELSE b

Abs(a) == IF a >= 0 THEN a ELSE 0 - a

\* exp(-x) / (1 + exp(-x)) ** 2 at |x| = 0, 1, 2, ... in millionths; it is
\* even in x and below half a millionth from |x| = 15 on.
DerivTable == <<250000, 196612, 104994, 45177, 17663, 6648, 2467, 910, 335, 123, 45, 17, 6, 2, 1, 0>>

\* The expression of line 65 (line 82 of my_agent.py): exp(-x) is squared
\* inside the denominator, so the evaluation raises OverflowError from
\* -x > ln(sqrt(DBL_MAX)) on; for large positive x exp(-x) underflows to 0.
LogisticDeriv(x) ==
  LET n == (Abs(x) + 500) \div 1000
  IN  [fault |-> (0 - x) > OverflowAt,
       value |-> IF n + 1 > Len(DerivTable) THEN 0 ELSE DerivTable[n + 1]]

DerivUnhandled(x) == LogisticDeriv(x)

\* try / except OverflowError of lines 64-67.
DerivTunable(x) ==
  IF LogisticDeriv(x).fault THEN [fault |-> FALSE, value |-> 0] ELSE LogisticDeriv(x)

Unfloored(v) == v

\* max(base_bid * urgency, 0.01)
Floored(v) == Max(v, Floor)

Tunable == "TunableSigmoidAgent"

Fixed == "MyNDaysNCampaignsAgent"

AdAgents ==
  {[cls |-> Fixed, p_peak_multiplier |-> 4000, p_steepness |-> 10000, p_base_lift |-> 200]}
  \cup {[cls |-> Tunable, p_peak_multiplier |-> 4000, p_steepness |-> s, p_base_lift |-> l] :
          s \in {10000, 800000, 2000000}, l \in {0, 200}}

Budgets == {None, <<0>>, <<Floor>>, <<DailyMin>>}

Campaigns ==
  [reach : 0..MaxReach, done : 0..MaxReach, spent : {0, Floor}, budget : Budgets]

\* camp.budget or 0
BudgetOr0(b) == IF b = None THEN 0 ELSE b[1]

Remaining(camp) == Max(camp.reach - camp.done, 0)

RemainingBudget(camp) == Max(BudgetOr0(camp.budget) - camp.spent, 0)

Skips(camp) == Remaining(camp) <= 0 \/ RemainingBudget(camp) <= 0

\* (progress - 0.5) * steepness, in thousandths
XOf(agent, camp) == ((((camp.done * 1000) \div camp.reach) - 500) * agent.p_steepness) \div 1000

DerivOf(agent, x) == IF agent.cls = Tunable THEN DerivTunable(x) ELSE LogisticDeriv(x)

Urgency(agent, deriv) == agent.p_base_lift * 10 + (deriv * agent.p_peak_multiplier) \div 100000

BidPerItem(agent, camp, deriv) ==
  Floored(((RemainingBudget(camp) \div Remaining(camp)) * Urgency(agent, deriv)) \div 10000)

DailyBudget(camp) == Max(DailyMin, (RemainingBudget(camp) * 95) \div 100)

InitBids ==
  /\ SweepAtRest
  /\ fr = Idle /\ pl = Idle /\ tw = Idle
  /\ \E agent \in AdAgents :
       ad = [pc |-> "loop", agent |-> agent, k |-> 0, camp |-> None, bundles |-> {},
             urgency_multiplier |-> None, fault |-> "none"]

\* One pass of the loop body over the next active campaign.
AdCampaign ==
  /\ ad.pc = "loop"
  /\ ad.k < MaxCamps
  /\ \E camp \in Campaigns :
       LET k == ad.k + 1
           base == [ad EXCEPT !.k = k, !.camp = camp]
       IN  IF Skips(camp)
           THEN ad' = base
           ELSE IF camp.reach = 0
           THEN ad' = [base EXCEPT !.pc = "fault", !.fault = "ZeroDivisionError"]
           ELSE LET d == DerivOf(ad.agent, XOf(ad.agent, camp))
                IN  IF d.fault
                    THEN ad' = [base EXCEPT !.pc = "fault", !.fault = "OverflowError"]
                    ELSE ad' = [base EXCEPT
                                  !.urgency_multiplier = Urgency(ad.agent, d.value),
                                  !.bundles = @ \cup {[campaign_id |-> k,
                                                      limit |-> DailyBudget(camp),
                                                      bid_per_item |-> BidPerItem(ad.agent, camp, d.value)]}]
  /\ UNCHANGED <<sweepVars, fr, pl, tw>>

\* The list of active campaigns is exhausted: return bundles.
AdReturn ==
  /\ ad.pc = "loop"
  /\ ad' = [ad EXCEPT !.pc = "returned"]
  /\ UNCHANGED <<sweepVars, fr, pl, tw>>

NextBids == AdCampaign \/ AdReturn

SpecBids == InitBids /\ [][NextBids]_vars

BundlesFor(k) == {b \in ad.bundles : b.campaign_id = k}

\* C15: a campaign with no remaining reach or no remaining budget (reach 0
\* included) gets no bundle and raises no fault; every other campaign gets
\* exactly one bundle, whose per-item bid is at least the floor 0.01.
C15_BidOrSkip ==
  (ad.pc # "idle" /\ ad.k > 0) =>
     /\ ad.fault # "ZeroDivisionError"
     /\ Skips(ad.camp) => (ad.fault = "none" /\ BundlesFor(ad.k) = {})
     /\ (~Skips(ad.camp) /\ ad.fault = "none") =>
          /\ Cardinality(BundlesFor(ad.k)) = 1
          /\ \A b \in BundlesFor(ad.k) : b.bid_per_item >= Floor
     /\ \A j \in 1..ad.k : Cardinality(BundlesFor(j)) <= 1
     /\ \A b \in ad.bundles : b.bid_per_item >= Floor

\* A campaign with reach 0 was skipped after a campaign whose raw bid
\* (0.01 of budget at urgency below 1) lay under the floor and was lifted to it.
C15_Witness ==
  /\ ad.pc = "returned" /\ ad.k = 2
  /\ ad.camp.reach = 0 /\ BundlesFor(2) = {}
  /\ \E b \in BundlesFor(1) : b.bid_per_item = Floor /\ b.limit = DailyMin

OverflowCase ==
  /\ ad.pc # "idle" /\ ad.k > 0
  /\ ad.agent.cls = Tunable
  /\ ~Skips(ad.camp)
  /\ LogisticDeriv(XOf(ad.agent, ad.camp)).fault

\* C17: in TunableSigmoidAgent.get_ad_bids an overflow of the logistic
\* derivative raises nothing; the urgency multiplier is base_lift and the
\* campaign still gets its bundle.
C17_OverflowClamped ==
  OverflowCase =>
     /\ ad.fault = "none" /\ ad.pc # "fault"
     /\ ad.urgency_multiplier = ad.agent.p_base_lift * 10
     /\ Cardinality(BundlesFor(ad.k)) = 1

\* The squared denominator overflowed (steepness 800, progress 0, x = -400)
\* and the call still returned a bundle for that campaign at urgency 0.2.
C17_Witness ==
  /\ OverflowCase /\ ad.pc = "returned"
  /\ ad.agent.p_steepness = 800000
  /\ ad.urgency_multiplier = 2000
  /\ \E b \in BundlesFor(ad.k) : b.bid_per_item >= Floor

\* ---------------------------------------------------------------------------
\* parse_profit_from_log on texts of report lines
\* ---------------------------------------------------------------------------

MaxLines == 2

BotDotX == <<"B", "o", "t", ".", "X">>

BotYX == <<"B", "o", "t", "Y", "X">>

Bot == <<"B", "o", "t">>

LineAgents == {BotDotX, BotYX, Bot}

\* Signed decimal numerals with their values in hundredths, given one by one.
Numerals ==
  {[tok |-> <<"1", "2", ".", "5", "0">>, value |-> 1250],
   [tok |-> <<"-", "3", ".", "0">>, value |-> -300],
   [tok |-> <<"7">>, value |-> 700]}

Lines == [agent : LineAgents, num : Numerals]

RECURSIVE TextOf(_)
TextOf(lines) ==
  IF lines = <<>> THEN <<>>
  ELSE ReportLine(lines[1].agent, lines[1].num.tok) \o TextOf(Tail(lines))

LineSeqs == UNION {[1..n -> Lines] : n \in 0..MaxLines}

InitParse ==
  /\ SweepAtRest
  /\ fr = Idle /\ ad = Idle /\ tw = Idle
  /\ \E lines \in LineSeqs, name \in LineAgents :
       pl = [pc |-> "call", lines |-> lines, output_str |-> TextOf(lines),
             agent_name |-> name, result |-> None]

\* The call parse_profit_from_log(output_str, agent_name).
PlCall ==
  /\ pl.pc = "call"
  /\ LET r == parse_profit_from_log(pl.output_str, pl.agent_name)
     IN  pl' = [pl EXCEPT !.pc = IF r.fault THEN "fault" ELSE "returned", !.result = r.value]
  /\ UNCHANGED <<sweepVars, fr, ad, tw>>

NextParse == PlCall

SpecParse == InitParse /\ [][NextParse]_vars

\* The value of the first line whose agent is name, Sentinel when there is none.
RECURSIVE FirstFor(_, _)
FirstFor(lines, name) ==
  IF lines = <<>> THEN Sentinel
  ELSE IF lines[1].agent = name THEN lines[1].num.value
  ELSE FirstFor(Tail(lines), name)

\* C16: on a text of lines "### <agent> # <number>" parse_profit_from_log
\* returns the number of the first line whose agent is exactly name (every
\* character of name taken literally) and -99999.0 when no line has it.
C16_FirstExactLine ==
  pl.pc \notin {"idle", "call"} =>
     /\ pl.pc = "returned"
     /\ pl.result = FirstFor(pl.lines, pl.agent_name)

\* name Bot.X after a line for BotYX: the second line's number is returned.
C16_Witness ==
  /\ pl.pc = "returned"
  /\ pl.agent_name = BotDotX
  /\ Len(pl.lines) = 2
  /\ pl.lines[1].agent = BotYX /\ pl.lines[2].agent = BotDotX
  /\ pl.lines[1].num.value # pl.lines[2].num.value
  /\ pl.result = pl.lines[2].num.value

\* ---------------------------------------------------------------------------
\* The output channel and the tracker during the sweep
\* ---------------------------------------------------------------------------

\* The controller is outside the call of run_simulation and its restore.
AtController == pc \in {"loop", "append", "track", "done"}

\* C18: sys.stdout is replaced only for one run_simulation call: when the
\* controller prints progress, starts the next combination, appends to the
\* store or returns, sys.stdout is the stream installed before the
\* combination began, after a normal return and after a caught Exception,
\* and nothing the controller printed went to a buffer.
C18_StdoutRestored ==
    /\ AtController => (stdout = "console" /\ stdout = original_stdout)
    /\ stdout = "capture" => pc \in {"running", "returned"}
    /\ \A k \in 1..Len(capture_string) : capture_string[k].src = "sim"

\* The sweep returned after one call raised and a later one returned normally;
\* the summary went to the console.
C18_Witness ==
    /\ pc = "done" /\ stdout = "console"
    /\ \E k \in Raised : \E r \in 1..Len(DataRows) : DataRows[r].Run_ID > k + 1
    /\ console[Len(console)].text = <<"Best Params">>

\* C19: best_params is None exactly while best_score is minus infinity, and
\* otherwise it is the parameter vector of a combination whose row in the
\* store carries fitness best_score.
C19_TrackerPaired ==
    pc # "start" =>
       /\ (best_params = None) <=> (best_score = NegInf)
       /\ best_params # None =>
            \E r \in 1..Len(DataRows) :
                /\ VectorOf(DataRows[r]) = best_params
                /\ DataRows[r].Avg_Profit = best_score

\* The tracker was replaced twice: it names the second row, not the first.
C19_Witness ==
    /\ pc = "loop" /\ Len(DataRows) >= 2
    /\ best_params = VectorOf(DataRows[2])
    /\ best_score = DataRows[2].Avg_Profit
    /\ DataRows[1].Avg_Profit < best_score
    /\ DataRows[1].Avg_Profit > NegInf

====
